---- MODULE Spec2Model ----
(***************************************************************************)
(* Model of the Teensy 4.1 firmware example of the LightningDeviceSDK:     *)
(*   RingBufferSized.h  - single-producer/single-consumer ring buffer      *)
(*   ADIPackets.h       - packet variants sharing one sequence counter     *)
(***************************************************************************)
EXTENDS Integers, Sequences, FiniteSets, TLC

(***************************************************************************)
(* Bounds of the model.                                                    *)
(***************************************************************************)
\* largest template parameter Size explored by the single-context model
MaxSize == 4
\* successful pushes logged before the single-context model stops pushing
MaxPushes == 5
\* largest nToPushIn given to the bulk Push
MaxBulk == 3
\* largest template parameter Size explored with two interleaved contexts
ConcMaxSize == 3
\* largest nToPushIn given to the bulk Push by the interleaved producer
ConcMaxBulk == 2

\* element values T given to Push
Vals == {"a", "b"}
\* content of a slot of mBuffer that was never stored to (T mBuffer[Size] is
\* not initialised by the constructor); reading it yields any value
Uninit == "uninit"
\* the caller's *val before a checked Get / GetNext
NoVal == "none"

VARIABLES
  Size,      \* template parameter Size of this instance
  mBuffer,   \* T mBuffer[Size]
  mIn,       \* volatile TIndex mIn
  mOut,      \* volatile TIndex mOut
  pushed,    \* log (kept when a run is logged): values accepted by Push
  popped,    \* log (kept when a run is logged): values GetNext(T*) returned
  res,       \* the last completed call: its name, arguments and results
  prod,      \* producer context: where it is in Push, and its locals
  cons,      \* consumer context: where it is in Get/GetNext/NextOut/Clear
  live,      \* slots holding a value stored by Push and not yet consumed
  flag       \* stale: the consumer has read a slot that held no such value;
             \* overwrote: the producer has stored into a slot that held one;
             \* early: the value Push is about to store was already consumed

VARIABLES
  sPacketCount,         \* static uint8_t PacketBase::sPacketCount
  gADCPointsPerPacket,  \* extern int gADCPointsPerPacket
  mPoint,               \* int Packet::mPoint
  mData,                \* int16_t Packet::mData[points][channels]
  nWrites,              \* log: packet writes since the counter was last 0 by
                        \* construction or ResetPacketCount()
  wr,                   \* the last completed packet call and what it gave
  life,                 \* log of the Packet instance: touched (addSample
                        \* stored or nextPoint was called since it was
                        \* constructed), written (write was called on it)
  wctx,                 \* two contexts writing packets: where each is
  sent                  \* log: sequence bytes handed to the sink by them

ringVars == <<Size, mBuffer, mIn, mOut>>
seqVars == <<pushed, popped, res>>
concVars == <<prod, cons, live, flag>>
pktVars == <<sPacketCount, gADCPointsPerPacket, mPoint, mData, nWrites, wr,
             life>>
twoVars == <<wctx, sent>>
\* what the ring-buffer calls made from one context leave alone
notSeq == <<concVars, pktVars, twoVars>>
\* what the steps of the two interleaved ring-buffer contexts leave alone
notConc == <<seqVars, pktVars, twoVars>>
\* what the packet calls leave alone
notPkt == <<ringVars, seqVars, concVars>>
vars == <<Size, mBuffer, mIn, mOut, pushed, popped, res, prod, cons, live,
          flag, sPacketCount, gADCPointsPerPacket, mPoint, mData, nWrites, wr,
          life, wctx, sent>>

Min(a, b) == IF a < b THEN a ELSE b

(***************************************************************************)
(* RingBufferSized: the code's arithmetic, as operators on cursor values.  *)
(***************************************************************************)

\* GetCount() with the two cursor values it read
GetCountOfNoWrap(in, out) == in - out
GetCountOf(in, out) ==
  LET result == in - out
  IN  IF result < 0 THEN result + Size ELSE result

\* GetSpace()
GetSpaceOfNoSlack(in, out) == Size - GetCountOf(in, out)
GetSpaceOf(in, out) == (Size - 1) - GetCountOf(in, out)

GetCount == GetCountOf(mIn, mOut)
GetSpace == GetSpaceOf(mIn, mOut)

\* if (cursor >= Size) cursor -= Size;
WrapLate(i) == IF i > Size THEN i - Size ELSE i
Wrap(i) == IF i >= Size THEN i - Size ELSE i

\* a store into mBuffer[i]
Store(buf, i, v) == IF i \in DOMAIN buf THEN [buf EXCEPT ![i] = v] ELSE buf

\* the values a read of mBuffer[i] can yield
ReadSlot(buf, i) ==
  IF i \in DOMAIN buf /\ buf[i] # Uninit THEN {buf[i]} ELSE Vals

\* memcpy(mBuffer + dst, val + src, len * sizeof(T)); val is the sequence items
CopyIn(buf, dst, items, src, len) ==
  [i \in DOMAIN buf |->
     IF i >= dst /\ i < dst + len THEN items[src + (i - dst) + 1] ELSE buf[i]]

\* the buffer as a value: backing array and the two cursors
RB == [buf |-> mBuffer, in |-> mIn, out |-> mOut]

\* bool Push(T val)
PushOneDropOldest(rb, val) ==
  [buf |-> Store(rb.buf, rb.in, val), in |-> Wrap(rb.in + 1),
   out |-> IF GetSpaceOf(rb.in, rb.out) # 0 THEN rb.out ELSE Wrap(rb.out + 1),
   ok |-> TRUE]
PushOneUnchecked(rb, val) ==
  [buf |-> Store(rb.buf, rb.in, val), in |-> Wrap(rb.in + 1),
   out |-> rb.out, ok |-> TRUE]
PushOne(rb, val) ==
  IF GetSpaceOf(rb.in, rb.out) # 0
    THEN [buf |-> Store(rb.buf, rb.in, val), in |-> Wrap(rb.in + 1),
          out |-> rb.out, ok |-> TRUE]
    ELSE [buf |-> rb.buf, in |-> rb.in, out |-> rb.out, ok |-> FALSE]

\* int Push(const T *val, TIndex nToPushIn)
PushManyOneSegment(rb, items, nToPushIn) ==
  LET space0  == GetSpaceOf(rb.in, rb.out)
      remain0 == IF nToPushIn > space0 THEN space0 ELSE nToPushIn
  IN  [buf |-> CopyIn(rb.buf, rb.in, items, 0, remain0),
       in |-> Wrap(rb.in + remain0), out |-> rb.out, cnt |-> remain0]
PushMany(rb, items, nToPushIn) ==
  LET space0  == GetSpaceOf(rb.in, rb.out)
      remain0 == IF nToPushIn > space0 THEN space0 ELSE nToPushIn
      space   == IF nToPushIn > space0 THEN space0 ELSE nToPushIn
  IN  IF remain0 # 0
        THEN LET avail   == Size - rb.in
                 len1    == IF avail > remain0 THEN remain0 ELSE avail
                 buf1    == CopyIn(rb.buf, rb.in, items, 0, len1)
                 in1     == Wrap(rb.in + len1)
                 remain1 == remain0 - len1
             IN  IF remain1 # 0
                   THEN [buf |-> CopyIn(buf1, 0, items, len1, remain1),
                         in |-> Wrap(in1 + remain1), out |-> rb.out,
                         cnt |-> space]
                   ELSE [buf |-> buf1, in |-> in1, out |-> rb.out,
                         cnt |-> space]
        ELSE [buf |-> rb.buf, in |-> rb.in, out |-> rb.out, cnt |-> space]

\* void Clear()
ClearOneToStart(rb) == [buf |-> rb.buf, in |-> rb.in, out |-> 0]
ClearOne(rb) == [buf |-> rb.buf, in |-> rb.in, out |-> rb.in]

\* the items a consumer can reach: mBuffer[mOut], mBuffer[mOut+1], ...
Contents(rb) ==
  [k \in 1..GetCountOf(rb.in, rb.out) |-> rb.buf[(rb.out + k - 1) % Size]]

(***************************************************************************)
(* ADIPackets.h: constants, byte layout and the sink.                      *)
(***************************************************************************)

\* const int kADCChannels = 2
kADCChannels == 2
\* storage capacity of Packet::mData in points; stands for
\* kPointsPerMediumSizePacket (10 in the source)
MaxPointsPerPacket == 2
\* packet writes explored by the packet-content model before it stops writing
MaxPktWrites == 2
\* packet writes explored by the sequence-counter model (past the wrap at 256)
MaxSeqWrites == 258
\* packet writes started by the two interleaved writer contexts together
MaxTwoWrites == 3

\* sample values given to addSample, and found in mData after construction
Samples == {100, -50}
\* tick32us values given to the time packets' constructors
Ticks == {16909060, -2}
\* timeRequestNumber values
Reqs == {7}
\* frameNumber values
Frames == {513}
\* latestFrameus values
FrameTicks == {-2}
\* const int kPointsPerPacket = 1
kPointsPerPacket == 1

Points == 0..(MaxPointsPerPacket - 1)
Chans == 0..(kADCChannels - 1)

\* uint8_t arithmetic: sPacketCount++ stores this
NextCountNoWrap(c) == c + 1
NextCount(c) == (c + 1) % 256

\* the argument of stream.write(sPacketCount++): the value before the increment
SeqByteIncremented(c) == (c + 1) % 256
SeqByteSent(c) == c

\* the object representation of the integers (little-endian two's complement
\* on the Cortex-M7 of the Teensy 4.1)
Int16Bytes(x) ==
  LET u == IF x < 0 THEN x + 65536 ELSE x
  IN  <<u % 256, u \div 256>>
UInt16Bytes(u) == <<u % 256, u \div 256>>
Int32Bytes(x) ==
  LET y    == IF x < 0 THEN -(x + 1) ELSE x
      b(k) == IF k = 0 THEN y % 256
              ELSE IF k = 1 THEN (y \div 256) % 256
              ELSE IF k = 2 THEN (y \div 65536) % 256
              ELSE y \div 16777216
      \* a negative x is the bitwise complement of -(x + 1)
      c(k) == IF x < 0 THEN 255 - b(k) ELSE b(k)
  IN  <<c(0), c(1), c(2), c(3)>>

\* reinterpret_cast<const uint8_t *>(mData): the bytes of the rows of mData
\* from row p on, each row its channels in order
RECURSIVE RowBytes(_, _)
RowBytes(row, c) ==
  IF c >= kADCChannels THEN <<>>
  ELSE Int16Bytes(row[c]) \o RowBytes(row, c + 1)
RECURSIVE DataBytes(_, _)
DataBytes(data, p) ==
  IF p >= MaxPointsPerPacket THEN <<>>
  ELSE RowBytes(data[p], 0) \o DataBytes(data, p + 1)

\* sizeof(int16_t) * kADCChannels * gADCPointsPerPacket
PayloadSizeFilled(n) == 2 * kADCChannels * Min(mPoint, n)
PayloadSizeWhole(n) == 2 * kADCChannels * MaxPointsPerPacket
PayloadSize(n) == 2 * kADCChannels * n

\* uint8_t(gADCPointsPerPacket == 1 ? 'D' : 'M')
TypeTagAlwaysD(n) == 68
TypeTag(n) == IF n = 1 THEN 68 ELSE 77

\* The sink (Stream::write): every call of one packet write accepts all the
\* bytes it is offered, except call number sink.call (0: none), which
\* accepts none of them (sink.less = 0) or all but the last (sink.less = 1).
SinkModes(calls) ==
  {[call |-> 0, less |-> 0]} \cup
  {m \in [call : 1..Len(calls), less : {0, 1}] :
     m.less = 1 => Len(calls[m.call]) > 1}

Accepted(bytes, i, sink) ==
  IF i # sink.call THEN Len(bytes)
  ELSE IF sink.less = 0 THEN 0
  ELSE Len(bytes) - 1

\* what calls i, i+1, ... of one packet write give: the bytes the sink took
\* and the sum of the counts it returned
RECURSIVE EmitUntilShort(_, _, _)
EmitUntilShort(calls, i, sink) ==
  IF i > Len(calls) THEN [out |-> <<>>, n |-> 0]
  ELSE LET k    == Accepted(calls[i], i, sink)
           rest == IF k < Len(calls[i]) THEN [out |-> <<>>, n |-> 0]
                   ELSE EmitUntilShort(calls, i + 1, sink)
       IN  [out |-> SubSeq(calls[i], 1, k) \o rest.out, n |-> k + rest.n]
RECURSIVE Emit(_, _, _)
Emit(calls, i, sink) ==
  IF i > Len(calls) THEN [out |-> <<>>, n |-> 0]
  ELSE LET k    == Accepted(calls[i], i, sink)
           rest == Emit(calls, i + 1, sink)
       IN  [out |-> SubSeq(calls[i], 1, k) \o rest.out, n |-> k + rest.n]

\* Packet::write: the arguments of its four stream.write calls
DataCalls ==
  << <<80, 160>>,
     <<TypeTag(gADCPointsPerPacket)>>,
     <<SeqByteSent(sPacketCount)>>,
     SubSeq(DataBytes(mData, 0), 1, PayloadSize(gADCPointsPerPacket)) >>

\* TimePacket::writeData: the arguments of its three stream.write calls
TimeDataCalls(tick, req) ==
  << <<SeqByteSent(sPacketCount)>>, <<req>>, Int32Bytes(tick) >>

\* TimePacket::write
TimeCalls(tick, req) == << <<80, 160, 78>> >> \o TimeDataCalls(tick, req)

\* FirstSampleTimePacket::write
FirstCalls(tick) ==
  << <<80, 160, 70>>, <<SeqByteSent(sPacketCount)>>, Int32Bytes(tick) >>

\* LatestUSBFrameTimePacket::write
LatestCallsViaWrite(tick, req, frame, ftime) ==
  << <<80, 160, 76>> >> \o TimeCalls(tick, req) \o
  << UInt16Bytes(frame), Int32Bytes(ftime) >>
LatestCalls(tick, req, frame, ftime) ==
  << <<80, 160, 76>> >> \o TimeDataCalls(tick, req) \o
  << UInt16Bytes(frame), Int32Bytes(ftime) >>

\* the result of a packet call: kind of call, its arguments (a time packet's
\* are those of its constructor), bytes the sink took, return value, the
\* sink's mode, the sequence byte offered, and bool result
PktResult(kind, args, out, n, sink, seq, ok) ==
  [kind |-> kind, args |-> args, out |-> out, n |-> n, sink |-> sink,
   seq |-> seq, ok |-> ok]

NoSink == [call |-> 0, less |-> 0]

\* mData after construction: the constructor leaves it as the memory was
\* (here: every cell the same sample)
FreshData == {[p \in Points |-> [c \in Chans |-> s]] : s \in Samples}

WctxIdle == [pc |-> "idle", kind |-> "none", t |-> 0]

\* a Packet instance on which nothing was called yet
LifeNew == [touched |-> FALSE, written |-> FALSE]

\* Packet::Packet, with sPacketCount in its zero-initialised static storage
InitPkt ==
  /\ sPacketCount = 0
  /\ gADCPointsPerPacket \in 1..MaxPointsPerPacket
  /\ mPoint = 0
  /\ mData \in FreshData
  /\ nWrites = 0
  /\ wr = PktResult("new", <<>>, <<>>, 0, NoSink, 0, FALSE)
  /\ life = LifeNew

InitPktTwo ==
  /\ wctx = [c \in {1, 2} |-> WctxIdle]
  /\ sent = <<>>

\* the packet variables in a model of the ring buffer alone
PktOff ==
  /\ sPacketCount = 0
  /\ gADCPointsPerPacket = 1
  /\ mPoint = 0
  /\ mData = [p \in Points |-> [c \in Chans |-> 100]]
  /\ nWrites = 0
  /\ wr = PktResult("new", <<>>, <<>>, 0, NoSink, 0, FALSE)
  /\ life = LifeNew
  /\ InitPktTwo

(***************************************************************************)
(* The calls, made from one context (each call runs to completion).        *)
(***************************************************************************)

Result(op, ok, cnt, val, items) ==
  [op |-> op, ok |-> ok, cnt |-> cnt, val |-> val, items |-> items]

InitRing(maxSize) ==
  /\ Size \in 2..maxSize
  /\ mBuffer = [i \in 0..(Size - 1) |-> Uninit]
  /\ mIn = 0
  /\ mOut = 0

InitSeq ==
  /\ pushed = <<>>
  /\ popped = <<>>
  /\ res = Result("new", FALSE, 0, NoVal, <<>>)

ProdIdle == [pc |-> "idle", items |-> <<>>, t |-> 0, rem |-> 0, src |-> 0]
ConsIdle == [pc |-> "idle", t |-> 0]

InitConc ==
  /\ prod = ProdIdle
  /\ cons = ConsIdle
  /\ live = {}
  /\ flag = [stale |-> FALSE, overwrote |-> FALSE, early |-> FALSE]

Init == InitRing(MaxSize) /\ InitSeq /\ InitConc /\ PktOff

\* log: whether the run keeps the logs pushed and popped (a logged run stops
\* pushing after MaxPushes accepted values)
PushAct(log) ==
  \E val \in Vals :
    /\ log => Len(pushed) < MaxPushes
    /\ LET r == PushOne(RB, val)
       IN  /\ mBuffer' = r.buf
           /\ mIn' = r.in
           /\ mOut' = r.out
           /\ pushed' = IF log /\ r.ok THEN Append(pushed, val) ELSE pushed
           /\ res' = Result("Push", r.ok, 0, val, <<>>)
    /\ UNCHANGED <<Size, popped, notSeq>>

PushBulkAct ==
  \E n \in 0..MaxBulk : \E items \in [1..n -> Vals] :
    /\ LET r == PushMany(RB, items, n)
       IN  /\ mBuffer' = r.buf
           /\ mIn' = r.in
           /\ mOut' = r.out
           /\ res' = Result("PushBulk", TRUE, r.cnt, NoVal, items)
    /\ UNCHANGED <<Size, pushed, popped, notSeq>>

\* bool Get(T *val) const
GetAct ==
  /\ IF GetCount # 0
       THEN \E v \in ReadSlot(mBuffer, mOut) :
              res' = Result("Get", TRUE, 0, v, <<>>)
       ELSE res' = Result("Get", FALSE, 0, NoVal, <<>>)
  /\ UNCHANGED <<ringVars, pushed, popped, notSeq>>

\* bool GetNext(T *val)
GetNextAct(log) ==
  /\ IF GetCount # 0
       THEN \E v \in ReadSlot(mBuffer, mOut) :
              /\ mOut' = Wrap(mOut + 1)
              /\ popped' = IF log THEN Append(popped, v) ELSE popped
              /\ res' = Result("GetNext", TRUE, 0, v, <<>>)
       ELSE /\ res' = Result("GetNext", FALSE, 0, NoVal, <<>>)
            /\ UNCHANGED <<mOut, popped>>
  /\ UNCHANGED <<Size, mBuffer, mIn, pushed, notSeq>>

\* bool NextOut()
NextOutAct ==
  /\ IF GetCount # 0
       THEN /\ mOut' = Wrap(mOut + 1)
            /\ res' = Result("NextOut", TRUE, 0, NoVal, <<>>)
       ELSE /\ res' = Result("NextOut", FALSE, 0, NoVal, <<>>)
            /\ UNCHANGED mOut
  /\ UNCHANGED <<Size, mBuffer, mIn, pushed, popped, notSeq>>

\* void Clear()
ClearAct ==
  /\ mOut' = mIn
  /\ res' = Result("Clear", TRUE, 0, NoVal, <<>>)
  /\ UNCHANGED <<Size, mBuffer, mIn, pushed, popped, notSeq>>

\* const T &Get() const (the caller is to test GetCount() first; without
\* the test it gets the slot at the read cursor whatever it holds)
PeekAct ==
  /\ \E v \in ReadSlot(mBuffer, mOut) :
       res' = Result("Peek", TRUE, 0, v, <<>>)
  /\ UNCHANGED <<ringVars, pushed, popped, notSeq>>

Next ==
  \/ PushAct(FALSE)
  \/ PushBulkAct
  \/ GetAct
  \/ PeekAct
  \/ GetNextAct(FALSE)
  \/ NextOutAct
  \/ ClearAct

Spec == Init /\ [][Next]_vars

\* single Push and checked GetNext only
NextFifo ==
  \/ PushAct(TRUE)
  \/ GetNextAct(TRUE)

SpecFifo == Init /\ [][NextFifo]_vars

\* void Clear(), in a logged run: the logs start again, and the call
\* reports the count it found
ClearLoggedAct ==
  /\ LET r == ClearOne(RB)
     IN  /\ mBuffer' = r.buf
         /\ mIn' = r.in
         /\ mOut' = r.out
  /\ pushed' = <<>>
  /\ popped' = <<>>
  /\ res' = Result("Clear", TRUE, GetCount, NoVal, <<>>)
  /\ UNCHANGED <<Size, notSeq>>

NextClear ==
  \/ PushAct(TRUE)
  \/ GetNextAct(TRUE)
  \/ ClearLoggedAct

\* single Push, checked GetNext and Clear
SpecClear == Init /\ [][NextClear]_vars

(***************************************************************************)
(* The producer context and the consumer context, interleaved.  A step is  *)
(* one access to the other context's cursor, one write of the own cursor,  *)
(* or one access to mBuffer; a context's reads of its own cursor are taken *)
(* with its next step (nobody else writes that cursor).                    *)
(*                                                                         *)
(* In  mBuffer[mIn++] = val  the write of mIn and the store into the slot  *)
(* are unsequenced, as are the write of mOut and the read of the slot in   *)
(* *val = mBuffer[mOut++]: either order is a step order the build can      *)
(* produce.  Statements are taken in program order.                        *)
(***************************************************************************)

\* the consumer passes slot s while Push has advanced mIn over s and not yet
\* stored into it
EarlyAt(s) == s \notin live /\ prod.pc = "push_inc_done" /\ prod.t = s

\* after mBuffer[mIn++] = val: if (mIn >= Size) ...
AfterPushBody(in) == IF in >= Size THEN [prod EXCEPT !.pc = "wrap"] ELSE ProdIdle

\* Push(val): if (GetSpace()), reading mOut
P_PushCall ==
  \E val \in Vals :
    /\ prod.pc = "idle"
    /\ prod' = IF GetSpaceOf(mIn, mOut) # 0
                 THEN [ProdIdle EXCEPT !.pc = "push_body", !.items = <<val>>,
                                       !.t = mIn]
                 ELSE ProdIdle
    /\ UNCHANGED <<ringVars, cons, live, flag, notConc>>

\* Push(val): the store of mBuffer[mIn++] = val
P_PushStore ==
  /\ prod.pc \in {"push_body", "push_inc_done"}
  /\ mBuffer' = Store(mBuffer, prod.t, prod.items[1])
  /\ live' = IF flag.early THEN live ELSE live \cup {prod.t}
  /\ flag' = [flag EXCEPT !.overwrote = @ \/ prod.t \in live, !.early = FALSE]
  /\ prod' = IF prod.pc = "push_body"
               THEN [prod EXCEPT !.pc = "push_store_done"]
               ELSE AfterPushBody(mIn)
  /\ UNCHANGED <<Size, mIn, mOut, cons, notConc>>

\* Push(val): the write of mIn in mBuffer[mIn++] = val
P_PushInc ==
  /\ prod.pc \in {"push_body", "push_store_done"}
  /\ mIn' = prod.t + 1
  /\ prod' = IF prod.pc = "push_body"
               THEN [prod EXCEPT !.pc = "push_inc_done"]
               ELSE AfterPushBody(mIn')
  /\ UNCHANGED <<Size, mBuffer, mOut, cons, live, flag, notConc>>

\* Push(items, n): GetSpace(), reading mOut, and the limit to the space
P_BulkCall ==
  \E n \in 0..ConcMaxBulk : \E items \in [1..n -> Vals] :
    /\ prod.pc = "idle"
    /\ LET space0  == GetSpaceOf(mIn, mOut)
           remain0 == IF n > space0 THEN space0 ELSE n
       IN  prod' = IF remain0 # 0
                     THEN [ProdIdle EXCEPT !.pc = "bulk_copy",
                                           !.items = SubSeq(items, 1, remain0),
                                           !.rem = remain0]
                     ELSE ProdIdle
    /\ UNCHANGED <<ringVars, cons, live, flag, notConc>>

\* Push(items, n): memcpy of the first segment (to mBuffer + mIn) or of the
\* second (to mBuffer)
P_BulkCopy ==
  /\ prod.pc = "bulk_copy"
  /\ LET first == prod.src = 0
         avail == Size - mIn
         dst   == IF first THEN mIn ELSE 0
         len   == IF first /\ avail <= prod.rem THEN avail ELSE prod.rem
         slots == dst..(dst + len - 1)
     IN  /\ mBuffer' = CopyIn(mBuffer, dst, prod.items, prod.src, len)
         /\ live' = live \cup slots
         /\ flag' = [flag EXCEPT !.overwrote = @ \/ (slots \cap live # {})]
         /\ prod' = [prod EXCEPT !.pc = "bulk_adv", !.t = len]
  /\ UNCHANGED <<Size, mIn, mOut, cons, notConc>>

\* Push(items, n): mIn += lenToCopy1 / mIn += nToPushRemain
P_BulkAdv ==
  /\ prod.pc = "bulk_adv"
  /\ mIn' = mIn + prod.t
  /\ LET left == [prod EXCEPT !.rem = prod.rem - prod.t,
                              !.src = prod.src + prod.t, !.t = 0]
     IN  prod' = IF mIn' >= Size THEN [left EXCEPT !.pc = "wrap"]
                 ELSE IF left.rem # 0 THEN [left EXCEPT !.pc = "bulk_copy"]
                 ELSE ProdIdle
  /\ UNCHANGED <<Size, mBuffer, mOut, cons, live, flag, notConc>>

\* either Push: mIn -= Size
P_Wrap ==
  /\ prod.pc = "wrap"
  /\ mIn' = mIn - Size
  /\ prod' = IF prod.rem # 0 THEN [prod EXCEPT !.pc = "bulk_copy"] ELSE ProdIdle
  /\ UNCHANGED <<Size, mBuffer, mOut, cons, live, flag, notConc>>

\* after the cursor was advanced: if (mOut >= Size) ...
AfterConsBody(out) == IF out >= Size THEN [cons EXCEPT !.pc = "wrap"] ELSE ConsIdle

\* Get(val): if (GetCount()), reading mIn
C_GetCall ==
  /\ cons.pc = "idle"
  /\ cons' = IF GetCountOf(mIn, mOut) # 0
               THEN [pc |-> "get_read", t |-> mOut]
               ELSE ConsIdle
  /\ UNCHANGED <<ringVars, prod, live, flag, notConc>>

\* Get(val): *val = mBuffer[mOut]
C_GetRead ==
  /\ cons.pc = "get_read"
  /\ flag' = [flag EXCEPT !.stale = @ \/ cons.t \notin live]
  /\ cons' = ConsIdle
  /\ UNCHANGED <<ringVars, prod, live, notConc>>

\* GetNext(val): if (GetCount()), reading mIn
C_GetNextCall ==
  /\ cons.pc = "idle"
  /\ cons' = IF GetCountOf(mIn, mOut) # 0
               THEN [pc |-> "gn_body", t |-> mOut]
               ELSE ConsIdle
  /\ UNCHANGED <<ringVars, prod, live, flag, notConc>>

\* GetNext(val): the read of the slot in *val = mBuffer[mOut++]
C_GetNextRead ==
  /\ cons.pc \in {"gn_body", "gn_inc_done"}
  /\ flag' = [flag EXCEPT !.stale = @ \/ cons.t \notin live,
                          !.early = @ \/ EarlyAt(cons.t)]
  /\ live' = live \ {cons.t}
  /\ cons' = IF cons.pc = "gn_body"
               THEN [cons EXCEPT !.pc = "gn_read_done"]
               ELSE AfterConsBody(mOut)
  /\ UNCHANGED <<ringVars, prod, notConc>>

\* GetNext(val): the write of mOut in *val = mBuffer[mOut++]
C_GetNextInc ==
  /\ cons.pc \in {"gn_body", "gn_read_done"}
  /\ mOut' = cons.t + 1
  /\ cons' = IF cons.pc = "gn_body"
               THEN [cons EXCEPT !.pc = "gn_inc_done"]
               ELSE AfterConsBody(mOut')
  /\ UNCHANGED <<Size, mBuffer, mIn, prod, live, flag, notConc>>

\* NextOut(): if (GetCount()), reading mIn
C_NextOutCall ==
  /\ cons.pc = "idle"
  /\ cons' = IF GetCountOf(mIn, mOut) # 0
               THEN [pc |-> "no_inc", t |-> mOut]
               ELSE ConsIdle
  /\ UNCHANGED <<ringVars, prod, live, flag, notConc>>

\* NextOut(): mOut++
C_NextOutInc ==
  /\ cons.pc = "no_inc"
  /\ mOut' = mOut + 1
  /\ live' = live \ {mOut}
  /\ flag' = [flag EXCEPT !.early = @ \/ EarlyAt(mOut)]
  /\ cons' = AfterConsBody(mOut')
  /\ UNCHANGED <<Size, mBuffer, mIn, prod, notConc>>

\* GetNext / NextOut: mOut -= Size
C_Wrap ==
  /\ cons.pc = "wrap"
  /\ mOut' = mOut - Size
  /\ cons' = ConsIdle
  /\ UNCHANGED <<Size, mBuffer, mIn, prod, live, flag, notConc>>

InitTwo == InitRing(ConcMaxSize) /\ InitSeq /\ InitConc /\ PktOff

NextTwo ==
  \/ P_PushCall
  \/ P_PushStore
  \/ P_PushInc
  \/ P_BulkCall
  \/ P_BulkCopy
  \/ P_BulkAdv
  \/ P_Wrap
  \/ C_GetCall
  \/ C_GetRead
  \/ C_GetNextCall
  \/ C_GetNextRead
  \/ C_GetNextInc
  \/ C_NextOutCall
  \/ C_NextOutInc
  \/ C_Wrap

\* one producer (Push, bulk Push) and one consumer (Get, GetNext, NextOut)
SpecTwo == InitTwo /\ [][NextTwo]_vars

\* the slots from cursor value a up to, not including, cursor value b
Between(a, b) == {(a + k) % Size : k \in 0..(((b - a) % Size) - 1)}

\* Clear(): the read of mIn in mOut = mIn
C_ClearCall ==
  /\ cons.pc = "idle"
  /\ cons' = [pc |-> "clear_write", t |-> mIn]
  /\ UNCHANGED <<ringVars, prod, live, flag, notConc>>

\* Clear(): the write of mOut in mOut = mIn
C_ClearWrite ==
  /\ cons.pc = "clear_write"
  /\ mOut' = cons.t
  /\ live' = live \cap Between(cons.t, mIn)
  /\ flag' = [flag EXCEPT !.early = @ \/ (/\ prod.pc = "push_inc_done"
                                          /\ prod.t \notin Between(cons.t, mIn))]
  /\ cons' = ConsIdle
  /\ UNCHANGED <<Size, mBuffer, mIn, prod, notConc>>

NextTwoClear ==
  \/ NextTwo
  \/ C_ClearCall
  \/ C_ClearWrite

\* one producer and one consumer that also calls Clear
SpecTwoClear == InitTwo /\ [][NextTwoClear]_vars

\* the steps of the consumer calling GetNext(T*) again and again
ConsumerSteps ==
  \/ C_GetNextCall
  \/ C_GetNextRead
  \/ C_GetNextInc
  \/ C_Wrap

\* the steps that finish a Push(T) that was called
ProducerFinish ==
  \/ P_PushStore
  \/ P_PushInc
  \/ P_Wrap

NextLive ==
  \/ P_PushCall
  \/ ProducerFinish
  \/ ConsumerSteps

\* a producer calling Push(T) when it likes and finishing each call, and a
\* consumer that keeps calling GetNext(T*); no Clear
SpecLive ==
  /\ InitTwo
  /\ [][NextLive]_vars
  /\ WF_vars(ProducerFinish)
  /\ WF_vars(ConsumerSteps)

(***************************************************************************)
(* The packet calls, made from one context.                                *)
(***************************************************************************)

\* Packet::Packet: a new instance replaces the old one
NewPacketAct ==
  /\ mPoint' = 0
  /\ mData' \in FreshData \cup {mData}
  /\ wr' = PktResult("new", <<>>, <<>>, 0, NoSink, 0, FALSE)
  /\ life' = LifeNew
  /\ UNCHANGED <<sPacketCount, gADCPointsPerPacket, nWrites, twoVars, notPkt>>

\* addSample: if (mPoint >= gADCPointsPerPacket) return false
PointsFullAtCapacity(pt) == pt >= MaxPointsPerPacket
PointsFull(pt) == pt >= gADCPointsPerPacket

\* bool Packet::addSample(int chan, int16_t sample)
AddSampleAct ==
  \E chan \in Chans : \E sample \in Samples :
    /\ IF PointsFull(mPoint)
         THEN /\ wr' = PktResult("addSample", <<chan, sample>>, <<>>, 0,
                                 NoSink, 0, FALSE)
              /\ UNCHANGED <<mData, life>>
         ELSE /\ mData' = [mData EXCEPT ![mPoint][chan] = sample]
              /\ wr' = PktResult("addSample", <<chan, sample>>, <<>>, 0,
                                 NoSink, 0, TRUE)
              /\ life' = [life EXCEPT !.touched = TRUE]
    /\ UNCHANGED <<sPacketCount, gADCPointsPerPacket, mPoint, nWrites,
                   twoVars, notPkt>>

\* void Packet::nextPoint (mPoint is followed up to the storage capacity)
NextPointAct ==
  /\ mPoint < MaxPointsPerPacket
  /\ mPoint' = mPoint + 1
  /\ wr' = PktResult("nextPoint", <<>>, <<>>, 0, NoSink, 0, TRUE)
  /\ life' = [life EXCEPT !.touched = TRUE]
  /\ UNCHANGED <<sPacketCount, gADCPointsPerPacket, mData, nWrites, twoVars,
                 notPkt>>

\* static void Packet::ResetPacketCount
ResetPacketCountAct ==
  /\ sPacketCount' = 0
  /\ nWrites' = 0
  /\ wr' = PktResult("reset", <<>>, <<>>, 0, NoSink, 0, TRUE)
  /\ UNCHANGED <<gADCPointsPerPacket, mPoint, mData, life, twoVars, notPkt>>

\* a write: its stream.write calls in order, one of them passing
\* sPacketCount++
WriteCalls(kind, args, calls) ==
  \E sink \in SinkModes(calls) :
    LET e == Emit(calls, 1, sink)
    IN  /\ wr' = PktResult(kind, args, e.out, e.n, sink,
                           SeqByteSent(sPacketCount), TRUE)
        /\ sPacketCount' = NextCount(sPacketCount)
        /\ nWrites' = nWrites + 1
        /\ life' = IF kind = "data" THEN [life EXCEPT !.written = TRUE]
                   ELSE life
        /\ UNCHANGED <<gADCPointsPerPacket, mPoint, mData, twoVars, notPkt>>

\* int Packet::write(Stream &stream) const
PacketWriteAct(limit) ==
  /\ nWrites < limit
  /\ WriteCalls("data", <<>>, DataCalls)

\* TimePacket(tick32us, timeRequestNumber).write(stream)
TimeWriteAct(limit) ==
  \E tick \in Ticks : \E req \in Reqs :
    /\ nWrites < limit
    /\ WriteCalls("time", <<tick, req>>, TimeCalls(tick, req))

\* FirstSampleTimePacket(tick32us).write(stream)
FirstWriteAct(limit) ==
  \E tick \in Ticks :
    /\ nWrites < limit
    /\ WriteCalls("first", <<tick>>, FirstCalls(tick))

\* LatestUSBFrameTimePacket(tick32us, timeRequestNumber, frameNumber,
\* latestFrameus).write(stream)
LatestWriteAct(limit) ==
  \E tick \in Ticks : \E req \in Reqs : \E frame \in Frames :
  \E ftime \in FrameTicks :
    /\ nWrites < limit
    /\ WriteCalls("latest", <<tick, req, frame, ftime>>,
                  LatestCalls(tick, req, frame, ftime))

\* the ring-buffer variables in a model of the packets alone
RingOff == InitRing(2) /\ InitSeq /\ InitConc

InitPackets == InitPkt /\ InitPktTwo /\ RingOff

NextPkt ==
  \/ NewPacketAct
  \/ AddSampleAct
  \/ NextPointAct
  \/ ResetPacketCountAct
  \/ PacketWriteAct(MaxPktWrites)

\* filling and writing data packets from one context
SpecPkt == InitPackets /\ [][NextPkt]_vars

NextSeq ==
  \/ ResetPacketCountAct
  \/ PacketWriteAct(MaxSeqWrites)
  \/ TimeWriteAct(MaxSeqWrites)
  \/ FirstWriteAct(MaxSeqWrites)
  \/ LatestWriteAct(MaxSeqWrites)

\* the data packet as constructed under the default configuration
InitSeqCount ==
  /\ InitPackets
  /\ gADCPointsPerPacket = kPointsPerPacket
  /\ mData = [p \in Points |-> [c \in Chans |-> 100]]

\* writes of any mix of packets from one context, past the counter's wrap
SpecSeq == InitSeqCount /\ [][NextSeq]_vars

(***************************************************************************)
(* Packet writes from two contexts, interleaved.  A step is one access to  *)
(* sPacketCount or the stream.write call that passes the sequence byte;    *)
(* in stream.write(sPacketCount++) the read and the write of sPacketCount  *)
(* come before the call.                                                   *)
(***************************************************************************)

PacketKinds == {"data", "time", "first", "latest"}

\* write: the stream.write calls before the sequence byte
W_Begin(c) ==
  \E kind \in PacketKinds :
    /\ wctx[c].pc = "idle"
    /\ nWrites < MaxTwoWrites
    /\ nWrites' = nWrites + 1
    /\ wctx' = [wctx EXCEPT ![c] = [pc |-> "read", kind |-> kind, t |-> 0]]
    /\ UNCHANGED <<sPacketCount, gADCPointsPerPacket, mPoint, mData, wr, life,
                   sent, notPkt>>

\* sPacketCount++: the read
W_Read(c) ==
  /\ wctx[c].pc = "read"
  /\ wctx' = [wctx EXCEPT ![c].pc = "inc", ![c].t = sPacketCount]
  /\ UNCHANGED <<pktVars, sent, notPkt>>

\* sPacketCount++: the write
W_Inc(c) ==
  /\ wctx[c].pc = "inc"
  /\ sPacketCount' = NextCount(wctx[c].t)
  /\ wctx' = [wctx EXCEPT ![c].pc = "send"]
  /\ UNCHANGED <<gADCPointsPerPacket, mPoint, mData, nWrites, wr, life, sent,
                 notPkt>>

\* stream.write(<the value read>), and the calls after it
W_Send(c) ==
  /\ wctx[c].pc = "send"
  /\ sent' = Append(sent, SeqByteSent(wctx[c].t))
  /\ wctx' = [wctx EXCEPT ![c] = WctxIdle]
  /\ UNCHANGED <<pktVars, notPkt>>

NextPktTwo ==
  \/ \E c \in {1, 2} : W_Begin(c)
  \/ \E c \in {1, 2} : W_Read(c)
  \/ \E c \in {1, 2} : W_Inc(c)
  \/ \E c \in {1, 2} : W_Send(c)

\* two contexts writing packets
SpecPktTwo == InitPackets /\ [][NextPktTwo]_vars

(***************************************************************************)
(* Claims about the single-context ring buffer.                            *)
(***************************************************************************)

\* C1: in every state reachable from an empty buffer by Push, bulk Push,
\* checked GetNext, NextOut and Clear, GetCount() is in 0..Size-1 and
\* GetCount() + GetSpace() = Size-1.
C1_CountInRange ==
  /\ GetCount \in 0..(Size - 1)
  /\ GetCount + GetSpace = Size - 1

\* a full buffer whose write cursor has wrapped behind the read cursor
C1_Witness ==
  /\ res.op = "PushBulk"
  /\ GetCount = Size - 1
  /\ mIn < mOut

\* C2: with single Push and checked GetNext only, the values the pops
\* returned, followed by the values still stored, are exactly the values the
\* pushes accepted, in push order (nothing lost, duplicated or reordered).
C2_Fifo ==
  /\ GetCount \in 0..(Size - 1)
  /\ popped \o Contents(RB) = pushed

\* capacity 4: push x1,x2,x3; pop; push x4; three pops: the fourth value went
\* through slot 3 and the write cursor wrapped to 0
C2_Witness ==
  /\ Size = 4
  /\ Len(pushed) = 4
  /\ popped = pushed
  /\ pushed[3] # pushed[4]
  /\ res.op = "GetNext"
  /\ mIn = 0

\* the buffer after Push(items[1]), ..., Push(items[k]), one call after the other
RECURSIVE PushSeq(_, _, _)
PushSeq(rb, items, k) ==
  IF k = 0 THEN rb ELSE PushOne(PushSeq(rb, items, k - 1), items[k])

\* C6: a Push on a buffer with space succeeds, stores the value at the write
\* cursor and adds one to the count (so C-1 pushes into an empty buffer all
\* succeed); a Push when GetSpace() = 0 returns false and leaves both cursors
\* and every slot unchanged.
C6_PushFullOrNot ==
  [][res'.op = "Push" =>
       IF GetSpace = 0
         THEN /\ ~res'.ok
              /\ mIn' = mIn /\ mOut' = mOut /\ mBuffer' = mBuffer
         ELSE /\ res'.ok
              /\ GetCount' = GetCount + 1
              /\ mOut' = mOut
              /\ mBuffer' = [mBuffer EXCEPT ![mIn] = res'.val]]_vars

\* C-1 values were pushed into the empty buffer and the C-th Push was refused
C6_Witness ==
  /\ res.op = "Push"
  /\ ~res.ok
  /\ mOut = 0
  /\ mIn = Size - 1
  /\ \A i \in 0..(Size - 2) : mBuffer[i] \in Vals

\* C7: bulk Push(items, n) returns min(n, space), adds exactly that to the
\* count, and leaves the cursors and the reachable contents as min(n, space)
\* single pushes of items[1], items[2], ... would.
C7_BulkAsSingles ==
  [][res'.op = "PushBulk" =>
       LET k   == Min(Len(res'.items), GetSpace)
           exp == PushSeq(RB, res'.items, k)
       IN  /\ res'.cnt = k
           /\ GetCount' = GetCount + k
           /\ mIn' = exp.in
           /\ mOut' = exp.out
           /\ Contents(RB') = Contents(exp)]_vars

\* a truncated bulk push whose copy wrapped past the end of the array
C7_Witness ==
  /\ res.op = "PushBulk"
  /\ res.cnt < Len(res.items)
  /\ res.cnt >= 2
  /\ 0 < mIn /\ mIn < res.cnt

(***************************************************************************)
(* Claims about the ring buffer shared by a producer and a consumer.       *)
(* live is the set of slots holding a value that a push stored and that    *)
(* the consumer has not yet taken or skipped.                              *)
(***************************************************************************)

\* C3: under every interleaving of a producer running Push and a consumer
\* running Get / GetNext, the value of an item is in its slot before the
\* advanced write cursor is visible, so the consumer never returns the
\* value of a slot that the push making it countable has not yet written.
C3_NoStaleRead == ~flag.stale

\* C4: under every interleaving of a producer (single or bulk Push) and a
\* consumer (checked GetNext / NextOut), the producer never stores into a
\* slot holding a pushed item that the consumer has not yet read.
C4_NoOverwrite == ~flag.overwrote

(***************************************************************************)
(* Claims about the packets.                                               *)
(***************************************************************************)

\* C5: counting from ResetPacketCount (or from start-up), the k-th write
\* (k = 0, 1, 2, ...) of any mix of the four packet variants passes the
\* sequence byte k mod 256 to the stream, where it is the fourth byte on the
\* wire when the sink accepts everything, and leaves the shared counter at
\* (k + 1) mod 256.
C5_SequenceByte ==
  /\ sPacketCount = nWrites % 256
  /\ wr.kind \in PacketKinds =>
       /\ wr.seq = (nWrites - 1) % 256
       /\ wr.sink.call = 0 => wr.out[4] = (nWrites - 1) % 256

\* write number 256 (the 257th) after 256 writes took the counter through
\* 255: it transmits 0 again
C5_Witness ==
  /\ nWrites = 257
  /\ wr.kind = "latest"
  /\ wr.sink.call = 0
  /\ wr.out[4] = 0
  /\ sPacketCount = 1

\* C8: with packet writes issued from two contexts whose steps interleave,
\* the increment of the shared counter acts as one indivisible operation:
\* once the m writes begun have all finished the counter has advanced by
\* exactly m (mod 256), and no two of them transmitted the same sequence
\* byte (m < 256 here).
C8_AtomicIncrement ==
  (\A c \in {1, 2} : wctx[c].pc = "idle") =>
    /\ sPacketCount = nWrites % 256
    /\ \A i, j \in 1..Len(sent) : i # j => sent[i] # sent[j]

\* byte i (from 1) of the payload of a data packet of n points, from mData:
\* samples point by point, a point's channels adjacent, low byte first
SampleByte(i) ==
  LET k == (i - 1) \div 2
      x == mData[k \div kADCChannels][k % kADCChannels]
      u == IF x < 0 THEN x + 65536 ELSE x
  IN  IF (i - 1) % 2 = 0 THEN u % 256 ELSE u \div 256

\* C9: with N points per packet configured and a sink that accepts every
\* byte, Packet::write emits the two magic bytes, the tag ('D' exactly when
\* N = 1, else 'M'), the sequence byte, and N * kADCChannels * 2 payload
\* bytes holding the stored samples point by point, and returns
\* 4 + N * kADCChannels * 2.
C9_DataPacketLayout ==
  (wr.kind = "data" /\ wr.sink.call = 0) =>
    LET len == gADCPointsPerPacket * kADCChannels * 2
    IN  /\ wr.n = 4 + len
        /\ Len(wr.out) = 4 + len
        /\ wr.out[1] = 80 /\ wr.out[2] = 160
        /\ wr.out[3] = 68 <=> gADCPointsPerPacket = 1
        /\ wr.out[3] = 77 <=> gADCPointsPerPacket > 1
        /\ wr.out[4] = wr.seq
        /\ \A i \in 1..len : wr.out[4 + i] = SampleByte(i)

\* 1 point per packet, samples 100 and -50, first write: 8 bytes
C9_Witness ==
  /\ wr.kind = "data"
  /\ gADCPointsPerPacket = 1
  /\ mPoint = 0
  /\ wr.out = <<80, 160, 68, 0, 100, 0, 206, 255>>
  /\ wr.n = 8

\* C10: the payload of a data packet covers the filled points (those passed
\* with nextPoint, at most the configured number) and no others: with fewer
\* points filled than configured, the unfilled point slots are not sent.
C10_OnlyFilledPoints ==
  (wr.kind = "data" /\ wr.sink.call = 0) =>
    Len(wr.out) - 4 = 2 * kADCChannels * Min(mPoint, gADCPointsPerPacket)

\* the 16-bit sample sent for channel c of point p
SentSample(p, c) ==
  LET at == 4 + 2 * (p * kADCChannels + c)
      u  == wr.out[at + 1] + 256 * wr.out[at + 2]
  IN  IF u >= 32768 THEN u - 65536 ELSE u

\* C10 as amended: the payload covers the configured number of points,
\* however many of them were filled: every slot of the first N points is
\* sent as it is held in mData, and nothing beyond them.
C10_ConfiguredPoints ==
  (wr.kind = "data" /\ wr.sink.call = 0) =>
    /\ Len(wr.out) - 4 = 2 * kADCChannels * gADCPointsPerPacket
    /\ \A p \in 0..(gADCPointsPerPacket - 1) : \A c \in Chans :
         SentSample(p, c) = mData[p][c]

\* a packet of two configured points written with one point filled: the
\* second point is sent although nothing was added to it
C10_Witness ==
  /\ wr.kind = "data"
  /\ wr.sink.call = 0
  /\ gADCPointsPerPacket = 2
  /\ mPoint = 1
  /\ mData[0] = [c \in Chans |-> -50]
  /\ mData[1] = [c \in Chans |-> 100]
  /\ Len(wr.out) = 12

(***************************************************************************)
(* Claims about the life of a data packet.                                 *)
(***************************************************************************)

\* where the instance is in Empty -> Filling -> Ready -> Written
Phase ==
  IF life.written THEN "Written"
  ELSE IF mPoint >= gADCPointsPerPacket THEN "Ready"
  ELSE IF life.touched THEN "Filling"
  ELSE "Empty"

\* the sample bytes of an emitted data packet
PayloadOf(out) == SubSeq(out, 5, Len(out))

\* C11: a data packet is written only from Filling or Ready; an instance
\* that has been written is not written again unless it was reset first.
C11_WriteOnceFromFilled ==
  [][(wr'.kind = "data" /\ nWrites' = nWrites + 1) =>
       Phase \in {"Filling", "Ready"}]_vars

\* C11 as amended: write is accepted in every phase of the instance, Empty
\* and Written included, and leaves the samples and the point index as they
\* are; each write sends the counter's current value and advances it, so a
\* write that directly follows a write of the same instance sends the same
\* payload under the next sequence number.
C11_WriteInAnyPhase ==
  [][(wr'.kind = "data" /\ nWrites' = nWrites + 1) =>
       /\ mData' = mData /\ mPoint' = mPoint
       /\ wr'.seq = sPacketCount
       /\ sPacketCount' = (sPacketCount + 1) % 256
       /\ (wr.kind = "data" /\ wr.sink.call = 0 /\ wr'.sink.call = 0) =>
            /\ wr'.seq = (wr.seq + 1) % 256
            /\ PayloadOf(wr'.out) = PayloadOf(wr.out)]_vars

\* an instance nothing was added to, written twice in a row: the second
\* write went out under sequence number 1
C11_Witness ==
  /\ wr.kind = "data"
  /\ wr.sink.call = 0
  /\ life.written /\ ~life.touched
  /\ nWrites = 2
  /\ wr.out[4] = 1

\* C12: addSample(chan, sample) returns false and changes neither mData nor
\* mPoint when mPoint has reached the configured points per packet (so
\* after that many nextPoint calls no addSample succeeds); otherwise it
\* returns true, stores the sample in mData[mPoint][chan] only and leaves
\* mPoint unchanged, replacing a value stored there before.
C12_AddSample ==
  [][wr'.kind = "addSample" =>
       LET chan   == wr'.args[1]
           sample == wr'.args[2]
       IN  /\ mPoint' = mPoint
           /\ IF mPoint >= gADCPointsPerPacket
                THEN ~wr'.ok /\ mData' = mData
                ELSE /\ wr'.ok
                     /\ mData'[mPoint][chan] = sample
                     /\ \A p \in Points : \A c \in Chans :
                          (p # mPoint \/ c # chan) =>
                            mData'[p][c] = mData[p][c]]_vars

\* the configured points were all passed with nextPoint and an addSample
\* was refused, below the capacity of mData
C12_Witness ==
  /\ wr.kind = "addSample"
  /\ ~wr.ok
  /\ gADCPointsPerPacket = 1
  /\ mPoint = 1
  /\ mData[0] = [c \in Chans |-> IF c = 0 THEN -50 ELSE 100]

(***************************************************************************)
(* Claims about the sink and the time packets.                             *)
(***************************************************************************)

\* the number of bytes each stream.write call of a variant offers
FieldLens(kind) ==
  IF kind = "data" THEN <<2, 1, 1, 2 * kADCChannels * gADCPointsPerPacket>>
  ELSE IF kind = "time" THEN <<3, 1, 1, 4>>
  ELSE IF kind = "first" THEN <<3, 1, 4>>
  ELSE <<3, 1, 1, 4, 2, 4>>

\* the call that offers the sequence byte
SeqField(kind) == IF kind = "data" THEN 3 ELSE 2

RECURSIVE SumLens(_, _)
SumLens(lens, k) == IF k = 0 THEN 0 ELSE lens[k] + SumLens(lens, k - 1)

\* the bytes the sink did not take in call number call
LostIn(lens, sink, call) ==
  IF sink.call # call THEN 0
  ELSE IF sink.less = 0 THEN lens[call] ELSE 1

\* C13: whatever the variant and whichever sink call falls short, write
\* offers every field once (nothing is sent again, nothing after the short
\* call is left out), returns the sum of the counts the sink reported, and
\* advances the shared counter by exactly one.
C13_ShortWrites ==
  wr.kind \in PacketKinds =>
    LET lens == FieldLens(wr.kind)
        q    == SeqField(wr.kind)
        lost == IF wr.sink.call = 0 THEN 0
                ELSE LostIn(lens, wr.sink, wr.sink.call)
        \* where the sequence byte lies if the sink took it
        at   == SumLens(lens, q) -
                (IF wr.sink.call \in 1..(q - 1) THEN lost ELSE 0)
    IN  /\ wr.n = SumLens(lens, Len(lens)) - lost
        /\ Len(wr.out) = wr.n
        /\ sPacketCount = (wr.seq + 1) % 256
        /\ sPacketCount = nWrites % 256
        /\ wr.sink.call # q => wr.out[at] = wr.seq
        /\ wr.sink.call # 1 => (wr.out[1] = 80 /\ wr.out[2] = 160)

\* the sink refused the sequence byte of a latest-frame packet: 14 bytes
\* went out, the request number lies where the sequence byte belongs, and
\* the counter moved on
C13_Witness ==
  /\ wr.kind = "latest"
  /\ wr.sink = [call |-> 2, less |-> 0]
  /\ wr.n = 14
  /\ wr.out[4] = 7
  /\ wr.seq = 0
  /\ sPacketCount = 1

\* the int32_t whose four bytes start at out[at]
Int32At(out, at) ==
  out[at] + 256 * out[at + 1] + 65536 * out[at + 2] +
  16777216 * (IF out[at + 3] >= 128 THEN out[at + 3] - 256 ELSE out[at + 3])

\* C17: with a sink that accepts every byte, after the two magic bytes
\* TimePacket emits 'N', the sequence byte, the request number and the
\* 4-byte time (9 bytes); FirstSampleTimePacket 'F', the sequence byte and
\* the 4-byte time (8 bytes); LatestUSBFrameTimePacket 'L', the sequence
\* byte, the request number, the 4-byte time, the 2-byte frame number and
\* the 4-byte frame time (15 bytes), with no 'N' header anywhere and the
\* counter advanced by one.
C17_TimeLayouts ==
  (wr.kind \in {"time", "first", "latest"} /\ wr.sink.call = 0) =>
    /\ wr.out[1] = 80 /\ wr.out[2] = 160
    /\ wr.out[4] = wr.seq
    /\ Len(wr.out) = wr.n
    /\ sPacketCount = (wr.seq + 1) % 256
    /\ wr.kind = "time" =>
         /\ wr.n = 9
         /\ wr.out[3] = 78
         /\ wr.out[5] = wr.args[2]
         /\ Int32At(wr.out, 6) = wr.args[1]
    /\ wr.kind = "first" =>
         /\ wr.n = 8
         /\ wr.out[3] = 70
         /\ Int32At(wr.out, 5) = wr.args[1]
    /\ wr.kind = "latest" =>
         /\ wr.n = 15
         /\ wr.out[3] = 76
         /\ wr.out[5] = wr.args[2]
         /\ Int32At(wr.out, 6) = wr.args[1]
         /\ wr.out[10] + 256 * wr.out[11] = wr.args[3]
         /\ Int32At(wr.out, 12) = wr.args[4]
         /\ \A i \in 1..(Len(wr.out) - 2) :
              ~(wr.out[i] = 80 /\ wr.out[i + 1] = 160 /\ wr.out[i + 2] = 78)

\* the latest-frame packet of time 0x01020304, request 7, frame 0x0201 and
\* frame time -2, written second
C17_Witness ==
  /\ wr.kind = "latest"
  /\ wr.n = 15
  /\ wr.out = <<80, 160, 76, 1, 7, 4, 3, 2, 1, 1, 2, 254, 255, 255, 255>>

(***************************************************************************)
(* Further claims about the single-context ring buffer.                    *)
(***************************************************************************)

\* C14: neither Push changes mOut, whether it succeeds, truncates or
\* fails; Get, GetNext, NextOut and Clear change neither mIn nor a slot;
\* the peek forms Get() and Get(&v) change no cursor.  (GetCount and
\* GetSpace are const functions of the two cursors.)
C14_CursorOwnership ==
  [][/\ res'.op \in {"Push", "PushBulk"} => mOut' = mOut
     /\ res'.op \in {"Get", "Peek", "GetNext", "NextOut", "Clear"} =>
          (mIn' = mIn /\ mBuffer' = mBuffer)
     /\ res'.op \in {"Get", "Peek"} => mOut' = mOut]_vars

\* a bulk Push that found no space, with the read cursor past the start
C14_Witness ==
  /\ res.op = "PushBulk"
  /\ res.cnt = 0
  /\ Len(res.items) = 2
  /\ mOut = 2
  /\ mIn = 1

\* C15: on an empty buffer Get(&v), GetNext(&v) and NextOut() return false
\* and leave the cursors, the slots and *v as they were; on a non-empty
\* buffer they return true, and GetNext(&v) and NextOut() advance mOut by
\* one modulo Size and lower GetCount() by one.
C15_CheckedForms ==
  [][res'.op \in {"Get", "GetNext", "NextOut"} =>
       IF GetCount = 0
         THEN /\ ~res'.ok
              /\ res'.val = NoVal
              /\ mIn' = mIn /\ mOut' = mOut /\ mBuffer' = mBuffer
         ELSE /\ res'.ok
              /\ res'.op # "Get" =>
                   /\ mOut' = (mOut + 1) % Size
                   /\ GetCount' = GetCount - 1]_vars

\* a GetNext refused on a buffer that is empty with both cursors at the
\* last slot
C15_Witness ==
  /\ res.op = "GetNext"
  /\ ~res.ok
  /\ res.val = NoVal
  /\ Size = 4
  /\ mIn = 3 /\ mOut = 3

\* C16: Clear sets mOut to mIn and changes neither mIn nor a slot, so that
\* GetCount() = 0 and GetSpace() = Size-1 after it; the values pushed before
\* a Clear are not returned by a later GetNext, and those pushed after it
\* are returned in push order (the logs start again at a Clear).
C16_Clear ==
  /\ [](popped \o Contents(RB) = pushed)
  /\ [][res'.op = "Clear" =>
          /\ mOut' = mIn
          /\ mIn' = mIn
          /\ mBuffer' = mBuffer
          /\ GetCount' = 0
          /\ GetSpace' = Size - 1]_vars

\* a Clear of a full buffer of capacity 4 whose items lay across the end of
\* the array
C16_Witness ==
  /\ res.op = "Clear"
  /\ res.cnt = 3
  /\ Size = 4
  /\ mIn = 1 /\ mOut = 1
  /\ pushed = <<>>

(***************************************************************************)
(* Further claims about the ring buffer shared by two contexts.            *)
(***************************************************************************)

\* C18: with single and bulk Push interleaved with Get, GetNext, NextOut
\* and Clear, every index the consumer reads mBuffer at is in 0..Size-1,
\* and between its calls the read cursor is in 0..Size-1 (a Clear never
\* leaves it at Size).
C18_IndexInRange ==
  /\ cons.pc \in {"get_read", "gn_body", "gn_inc_done"} =>
       cons.t \in 0..(Size - 1)
  /\ cons.pc = "idle" => mOut \in 0..(Size - 1)

\* C19: whenever the consumer is between calls, the count it would compute
\* from the cursors is not negative and not more than the number of slots
\* holding a pushed, unread item; whenever the producer is between calls,
\* the space it would compute is not negative and not more than the number
\* of usable slots holding no such item.
C19_ConservativeCounts ==
  /\ cons.pc = "idle" =>
       GetCountOf(mIn, mOut) \in 0..Cardinality(live)
  /\ prod.pc = "idle" =>
       GetSpaceOf(mIn, mOut) \in 0..((Size - 1) - Cardinality(live))

\* C20: with the consumer calling GetNext(T*) again and again and no
\* Clear, every pushed item is eventually returned.  A run that has come to
\* rest refutes it: both contexts are between calls, the count is 0, so
\* every further GetNext returns false, and yet a slot holds a pushed item
\* that was never read.
C20_NoItemStranded ==
  (prod.pc = "idle" /\ cons.pc = "idle" /\ GetCountOf(mIn, mOut) = 0) =>
    live = {}

====
